---- MODULE Spec2Model ----
(***************************************************************************)
(* Train Dominoes engine (lowtorola/dominoes-engine).                      *)
(*                                                                         *)
(* The model follows src/engine/models/game.py (Player, Train,             *)
(* CommunityTrain, Game) and src/engine/models/domino.py (Domino,          *)
(* DominoSet, TreeNode, DominoTree).  A Domino object is the pair          *)
(* <<top, bottom>>; Domino.__eq__ / __hash__ identify the two orientations *)
(* of a pair.  A Python set or dict iterates in an order the program does  *)
(* not control, so "the first element" of one is any element.              *)
(***************************************************************************)
EXTENDS Integers, Sequences, FiniteSets, TLC

\* ------------------------------------------------------------------ bounds
\* The real table (constants.py get_domino_parameters) starts at a double-9
\* set with hands of 8; the model plays the same rules on a smaller set.
NumPlayers == 2

SIDE_MAX == 3

HAND_SIZE == 2

MAX_ROUNDS == 1

\* ------------------------------------------------------- program constants
SIDE_MIN == 0

\* The community Train's owner, Player(COMMUNITY_TRAIN), as a train id.
COMMUNITY_TRAIN == 0

Players == 1..NumPlayers

TrainIds == {COMMUNITY_TRAIN} \cup Players

\* Game.players is the list of names as given; here the names are given in
\* descending alphabetical order, so sorting by name reverses the list.
NameRank(p) == NumPlayers + 1 - p

NoTrain == 0 - 1

\* ------------------------------------------------------------------ Domino
Flip(d) == <<d[2], d[1]>>

DominoEqOriented(a, b) == a = b

DominoEq(a, b) == (a[1] = b[1] /\ a[2] = b[2]) \/ (a[1] = b[2] /\ a[2] = b[1])

\* Domino.__hash__: the hash of the sorted pair of sides, as that pair.
Hash(d) == IF d[1] <= d[2] THEN <<d[1], d[2]>> ELSE <<d[2], d[1]>>

ValuePips(d) == d[1] + d[2]

Value(d) == IF d[1] = 0 /\ d[2] = 0 THEN 50 ELSE d[1] + d[2]

DominoLt(a, b) == Value(a) > Value(b)

MatchesAny(d, above) == TRUE

Matches(d, above) == d[1] = above[2]

MatchesFlipped(d, above) == d[2] = above[2]

IsDouble(d) == d[1] = d[2]

ENGINE == <<SIDE_MAX, SIDE_MAX>>

\* --------------------------------------------------------------- DominoSet
\* A DominoSet is the set of its Domino objects, each in its orientation.
Contains(dominoes, d) == \E x \in dominoes : DominoEq(x, d)

Discard(dominoes, d) == {x \in dominoes : ~DominoEq(x, d)}

\* DominoSet.draw_random: every outcome of set.pop(), which raises KeyError on
\* an empty set.  returned: the set of the Dominoes returned (one, or none).
DrawRandom(dominoes) ==
    IF dominoes = {}
    THEN {[raised |-> "KeyError", dominoes |-> dominoes, returned |-> {}]}
    ELSE {[raised |-> "none", dominoes |-> dominoes \ {d}, returned |-> {d}] : d \in dominoes}

\* DominoSet.draw: it returns the Domino object it was given.
Draw(dominoes, d) ==
    IF ~Contains(dominoes, d)
    THEN [raised |-> "does not contain", dominoes |-> dominoes, returned |-> {}]
    ELSE [raised |-> "none", dominoes |-> Discard(dominoes, d), returned |-> {d}]

AllMatchingUnflipped(dominoes, to_match) == dominoes

\* all_matching flips, in place, every Domino whose bottom is the face to
\* match; AllMatchingSet is the set afterwards, AllMatching what is returned.
AllMatchingSet(dominoes, to_match) ==
    {IF MatchesFlipped(d, to_match) THEN Flip(d) ELSE d : d \in dominoes}

AllMatching(dominoes, to_match) ==
    {d \in AllMatchingSet(dominoes, to_match) : Matches(d, to_match)}

GenerateAllPairs(side_max) ==
    UNION {{<<i, j>> : j \in SIDE_MIN..side_max} : i \in SIDE_MIN..side_max}

\* Game.generate_dominoes of a Game with this SIDE_MAX: Domino(i, j) for i in
\* SIDE_MIN..SIDE_MAX, j in i..SIDE_MAX.
GenerateDominoesOf(side_max) ==
    UNION {{<<i, j>> : j \in i..side_max} : i \in SIDE_MIN..side_max}

GenerateDominoes == GenerateDominoesOf(SIDE_MAX)

RECURSIVE SumValues(_)
SumValues(dominoes) ==
    IF dominoes = {} THEN 0
    ELSE LET d == CHOOSE x \in dominoes : TRUE
         IN Value(d) + SumValues(dominoes \ {d})

\* ---------------------------------------------------------------- TreeNode
TreeNode(domino) == [domino |-> domino, children |-> <<>>]

IsCompleteAtOne(node) == Len(node.children) >= 1

IsCompleteAtTwo(node) == Len(node.children) >= 2

IsComplete(node) ==
    \/ IsDouble(node.domino) /\ Len(node.children) >= 2
    \/ ~IsDouble(node.domino) /\ Len(node.children) >= 1

\* -------------------------------------------------------------- DominoTree
\* nodes: every TreeNode made for the tree, a node's identity being its index;
\* root: the root's index, 0 for None; ends: the dict Domino -> TreeNode in
\* insertion order; ends_by_bottom: the dict face -> set of TreeNodes.
EmptyMap == [f \in {} |-> {}]

NewTrain(isMarked) ==
    [root |-> 0, nodes |-> <<>>, ends |-> <<>>, ends_by_bottom |-> EmptyMap,
     marked |-> isMarked]

IsEmptyAlways(t) == TRUE

IsEmpty(t) == t.root = 0

HasKey(ends, d) == \E i \in 1..Len(ends) : DominoEq(ends[i].key, d)

KeyIndex(ends, d) == CHOOSE i \in 1..Len(ends) : DominoEq(ends[i].key, d)

\* ends[d] = node: an equal key keeps its place and its key object.
DictSet(ends, d, node) ==
    IF HasKey(ends, d)
    THEN [ends EXCEPT ![KeyIndex(ends, d)].node = node]
    ELSE Append(ends, [key |-> d, node |-> node])

DictDel(ends, d) ==
    LET k == KeyIndex(ends, d)
    IN [i \in 1..(Len(ends) - 1) |-> IF i < k THEN ends[i] ELSE ends[i + 1]]

MapAdd(m, f, node) ==
    [g \in DOMAIN m \cup {f} |-> IF g \in DOMAIN m
                                   THEN (IF g = f THEN m[g] \cup {node} ELSE m[g])
                                   ELSE {node}]

MapDelKey(m, f) == [g \in DOMAIN m \ {f} |-> m[g]]

Faces(dominoes) == {d[1] : d \in dominoes} \cup {d[2] : d \in dominoes}

\* DominoTree.playable_ends, as None or the set of the Dominoes in the tuple.
DominoTreePlayableEnds(t, dominoes) ==
    IF t.root = 0 THEN {<<>>}
    ELSE IF dominoes = {} THEN {t.ends[i].key : i \in 1..Len(t.ends)}
    ELSE {t.nodes[n].domino :
            n \in UNION {t.ends_by_bottom[f] :
                            f \in DOMAIN t.ends_by_bottom \cap Faces(dominoes)}}

\* DominoTree.playable_ends with no Dominoes given: every key of ends, in order.
TreeEndsAll(t) == [i \in 1..Len(t.ends) |-> t.ends[i].key]

\* What a call returns when it returns None rather than a tuple of Dominoes.
None == {<<>>}

\* DominoTree.playable_ends with Dominoes given: None for a tree without a root,
\* else a tuple made from a set.
TreePlayableEnds(t, dominoes) ==
    IF t.root = 0 THEN None
    ELSE {t.nodes[n].domino :
            n \in UNION {t.ends_by_bottom[f] :
                            f \in DOMAIN t.ends_by_bottom \cap Faces(dominoes)}}

\* DominoTree.add_to_leaf.  raised: "none", or what the call raises (the message
\* of the Exception, or KeyError); tree: the tree as the call leaves it; domino:
\* the Domino as the call leaves it.
AddToLeaf(t, leaf, domino) ==
    IF ~HasKey(t.ends, leaf)
    THEN [raised |-> "not a valid leaf", tree |-> t, domino |-> domino]
    ELSE
    LET d == IF MatchesFlipped(domino, leaf) THEN Flip(domino) ELSE domino
    IN  IF ~Matches(d, leaf)
        THEN [raised |-> "does not match", tree |-> t, domino |-> d]
        ELSE
        LET li == t.ends[KeyIndex(t.ends, leaf)].node
        IN  IF IsComplete(t.nodes[li])
            THEN [raised |-> "complete tree node", tree |-> t, domino |-> d]
            ELSE
            LET ni     == Len(t.nodes) + 1
                nodes1 == Append([t.nodes EXCEPT ![li].children = Append(@, d)],
                                 TreeNode(d))
                ends1  == DictSet(t.ends, d, ni)
                ebb1   == MapAdd(t.ends_by_bottom, d[2], ni)
                t1     == [t EXCEPT !.nodes = nodes1, !.ends = ends1,
                                    !.ends_by_bottom = ebb1]
            IN  IF ~IsComplete(nodes1[li])
                THEN [raised |-> "none", tree |-> t1, domino |-> d]
                ELSE
                LET ends2 == DictDel(ends1, leaf)
                    t2    == [t1 EXCEPT !.ends = ends2]
                IN  IF leaf[2] \notin DOMAIN ebb1 \/ li \notin ebb1[leaf[2]]
                    THEN [raised |-> "KeyError", tree |-> t2, domino |-> d]
                    ELSE
                    LET left == ebb1[leaf[2]] \ {li}
                        ebb2 == IF left = {}
                                THEN MapDelKey(ebb1, leaf[2])
                                ELSE [ebb1 EXCEPT ![leaf[2]] = left]
                    IN  [raised |-> "none",
                         tree   |-> [t2 EXCEPT !.ends_by_bottom = ebb2],
                         domino |-> d]

\* ------------------------------------------------------------------- Train
\* Train.__init__
Train == NewTrain(FALSE)

CommunityTrainUnmarked == NewTrain(FALSE)

\* CommunityTrain.__init__
CommunityTrain == NewTrain(TRUE)

PlayableEndsOfTree(t, dominoes) == TreePlayableEnds(t, dominoes)

\* Train.playable_ends, as the set of the Dominoes in the returned tuple.
PlayableEnds(t, dominoes) ==
    IF IsEmpty(t)
    THEN IF dominoes = {} THEN {ENGINE}
         ELSE IF \E d \in dominoes : Matches(d, ENGINE) \/ MatchesFlipped(d, ENGINE)
              THEN {ENGINE} ELSE {}
    ELSE IF dominoes = {}
         THEN {t.ends[i].key : i \in 1..Len(t.ends)}
         ELSE TreePlayableEnds(t, dominoes)

\* Train.playable_ends([]), in the order of the returned tuple.
PlayableEndsAll(t) == IF IsEmpty(t) THEN <<ENGINE>> ELSE TreeEndsAll(t)

\* Train.add_to_end
AddToEnd(t, end, domino) ==
    IF IsEmpty(t) /\ DominoEq(end, ENGINE)
    THEN LET d == IF MatchesFlipped(domino, end) THEN Flip(domino) ELSE domino
         IN  IF ~Matches(d, end)
             THEN [raised |-> "does not match", tree |-> t, domino |-> d]
             ELSE [raised |-> "none",
                   tree   |-> [t EXCEPT !.root = 1,
                                        !.nodes = <<TreeNode(d)>>,
                                        !.ends = <<[key |-> d, node |-> 1]>>,
                                        !.ends_by_bottom = MapAdd(EmptyMap, d[2], 1)],
                   domino |-> d]
    ELSE AddToLeaf(t, end, domino)

\* -------------------------------------------------------------------- Game
VARIABLES
    pc,               \* where Game.play is: setup, first, turn, draw, retry, score, done, raised
    strategy,         \* per Player: which make_move the Player object has
    round_counter,    \* Game.round_counter
    rankings,         \* Game.rankings: Player -> score
    hands,            \* Player.dominoes of every Player
    boneyard,         \* Game.boneyard.dominoes
    turn_order,       \* Game.turn_order: the index player_order yields next
    trains,           \* Game.trains: Player -> Train
    community_train,  \* Game.community_train
    played,           \* play_first_turn's counter
    current_player,   \* play's current_player (0 before the first turn)
    moved,            \* play's moved
    was_marked,       \* history: whether current_player's Train was marked when the
                      \* turn in progress began (FALSE between turns)
    raised,           \* the exception that ended play, if any
    call,             \* history: the last call made directly on a Train or a DominoSet
                      \* (its arguments and its outcome), NoCall when there was none
    game              \* where Game(player_names) itself is called: the names given,
                      \* the parameters of the Game made and the length of its boneyard

vars == <<pc, strategy, round_counter, rankings, hands, boneyard, turn_order,
          trains, community_train, played, current_player, moved, was_marked, raised,
          call, game>>

NoGame == [names |-> <<>>, made |-> FALSE]

NoCall == [end |-> <<>>, domino |-> <<>>, raised |-> "none", placed |-> <<>>]

\* An exception that leaves Game.play: its class, its message, and the
\* prev_state an InvalidMoveException carries.
NoException == [kind |-> "none", message |-> "none", prev_state |-> <<>>]

Raise(message) ==
    IF message = "none" THEN NoException
    ELSE [kind       |-> IF message = "KeyError" THEN "KeyError" ELSE "Exception",
          message    |-> message,
          prev_state |-> <<>>]

InvalidMoveException(message, prev_state) ==
    [kind |-> "InvalidMoveException", message |-> message, prev_state |-> prev_state]

TrainOf(tr, ct, id) == IF id = COMMUNITY_TRAIN THEN ct ELSE tr[id]

\* Train.is_marked / CommunityTrain.is_marked
IsMarked(tr, ct, id) == IF id = COMMUNITY_TRAIN THEN TRUE ELSE tr[id].marked

\* set_marked on the Train with this id (CommunityTrain.set_marked raises).
SetMarked(tr, id) ==
    IF id = COMMUNITY_TRAIN
    THEN [raised |-> "Cannot mark the community Train.", trains |-> tr]
    ELSE [raised |-> "none", trains |-> [tr EXCEPT ![id].marked = TRUE]]

\* set_unmarked on the Train with this id (CommunityTrain.set_unmarked raises).
SetUnmarked(tr, id) ==
    IF id = COMMUNITY_TRAIN
    THEN [raised |-> "Cannot un-mark the community Train.", trains |-> tr]
    ELSE [raised |-> "none", trains |-> [tr EXCEPT ![id].marked = FALSE]]

NextIdxStays(idx) == idx

\* Game.player_order: the index after idx, circularly.
NextIdx(idx) == (idx % NumPlayers) + 1

GetPlayableTrainsAll(p, tr, ct) ==
    <<COMMUNITY_TRAIN>> \o [i \in 1..NumPlayers |-> i]

\* Game.get_playable_trains: train ids in the order of the returned list.
GetPlayableTrains(p, tr, ct) ==
    <<COMMUNITY_TRAIN>> \o
    SelectSeq([i \in 1..NumPlayers |-> i], LAMBDA q : q = p \/ IsMarked(tr, ct, q))

CanMoveOnOwnTrain(p, hand, tr, ct) == PlayableEnds(tr[p], hand) # {}

\* Game.can_move
CanMove(p, hand, tr, ct) ==
    LET playable_trains == GetPlayableTrains(p, tr, ct)
    IN  \E k \in 1..Len(playable_trains) :
            PlayableEnds(TrainOf(tr, ct, playable_trains[k]), hand) # {}

\* sorted(): stable, by Domino.__lt__ alone.
RECURSIVE Sorted(_)
Sorted(s) ==
    IF s = <<>> THEN <<>>
    ELSE LET x    == s[Len(s)]
             rest == Sorted(SubSeq(s, 1, Len(s) - 1))
             keep == {i \in 1..Len(rest) : DominoLt(x, rest[i])}
             k    == IF keep = {} THEN Len(rest) + 1
                     ELSE CHOOSE i \in keep : \A j \in keep : i <= j
         IN  SubSeq(rest, 1, k - 1) \o <<x>> \o SubSeq(rest, k, Len(rest))

\* Game.hash_train
HashTrain(tr, ct, id) == <<id, Sorted(PlayableEndsAll(TrainOf(tr, ct, id)))>>

\* The Players in ascending order of name.
ByName == [k \in 1..NumPlayers |-> CHOOSE p \in Players : NameRank(p) = k]

\* Game.to_hashable
ToHashable(tr, ct) ==
    [k \in 1..(NumPlayers + 1) |->
        IF k <= NumPlayers THEN HashTrain(tr, ct, ByName[k])
        ELSE HashTrain(tr, ct, COMMUNITY_TRAIN)]

\* list == list on lists of Dominoes
EndsEq(a, b) == Len(a) = Len(b) /\ \A i \in 1..Len(a) : DominoEq(a[i], b[i])

DidMoveByLength(prev, tr, ct) ==
    LET changed == {k \in 1..NumPlayers :
                        Len(prev[k][2]) # Len(HashTrain(tr, ct, ByName[k])[2])}
    IN  IF changed # {}
        THEN ByName[CHOOSE k \in changed : \A j \in changed : k <= j]
        ELSE IF Len(prev[NumPlayers + 1][2]) # Len(HashTrain(tr, ct, COMMUNITY_TRAIN)[2])
             THEN COMMUNITY_TRAIN
             ELSE NoTrain

\* Game.did_move: the id of the Train returned, NoTrain for None.
DidMove(prev, tr, ct) ==
    LET changed == {k \in 1..NumPlayers :
                        ~EndsEq(prev[k][2], HashTrain(tr, ct, ByName[k])[2])}
    IN  IF changed # {}
        THEN ByName[CHOOSE k \in changed : \A j \in changed : k <= j]
        ELSE IF ~EndsEq(prev[NumPlayers + 1][2], HashTrain(tr, ct, COMMUNITY_TRAIN)[2])
             THEN COMMUNITY_TRAIN
             ELSE NoTrain

\* ------------------------------------------------------------- make_move
\* What a make_move call leaves behind: the Player's hand, the Trains, and the
\* exception it raised, if any.
Declined(hand, tr, ct) ==
    [hand |-> hand, trains |-> tr, community_train |-> ct, raised |-> "none"]

DrawAndAddKeepsHand(hand, tr, ct, id, end, d) ==
    LET r == AddToEnd(TrainOf(tr, ct, id), end, d)
    IN  [hand            |-> hand,
         trains          |-> IF id = COMMUNITY_TRAIN THEN tr ELSE [tr EXCEPT ![id] = r.tree],
         community_train |-> IF id = COMMUNITY_TRAIN THEN r.tree ELSE ct,
         raised          |-> r.raised]

\* play = self.draw(d); train.add_to_end(end, play), on the Train with this id.
DrawAndAdd(hand, tr, ct, id, end, d) ==
    LET r == AddToEnd(TrainOf(tr, ct, id), end, d)
    IN  [hand            |-> Discard(hand, d),
         trains          |-> IF id = COMMUNITY_TRAIN THEN tr ELSE [tr EXCEPT ![id] = r.tree],
         community_train |-> IF id = COMMUNITY_TRAIN THEN r.tree ELSE ct,
         raised          |-> r.raised]

\* Player.make_move of game.py (greedy first fit): the first Train of the list
\* with an end some Domino of the hand matches, any such end, any such Domino.
GreedyMakeMove(hand, playable_trains, tr, ct) ==
    LET fits(id) == {e \in PlayableEnds(TrainOf(tr, ct, id), hand) :
                        AllMatching(hand, e) # {}}
        open     == {k \in 1..Len(playable_trains) : fits(playable_trains[k]) # {}}
    IN  IF open = {} THEN {Declined(hand, tr, ct)}
        ELSE LET id == playable_trains[CHOOSE k \in open : \A j \in open : k <= j]
             IN  UNION {{DrawAndAdd(AllMatchingSet(hand, e), tr, ct, id, e, d) :
                            d \in AllMatching(hand, e)} : e \in fits(id)}

\* A make_move supplied by the strategy layer: it declines, or draws one Domino
\* of the hand and adds it to one end of one Train of the Game.
CustomMakeMove(hand, tr, ct) ==
    {Declined(hand, tr, ct)} \cup
    UNION {UNION {{DrawAndAdd(hand, tr, ct, id, e, d) : d \in hand} :
                     e \in PlayableEnds(TrainOf(tr, ct, id), {})} : id \in TrainIds}

MakeMove(p, hand, playable_trains, tr, ct) ==
    IF strategy[p] = "greedy"
    THEN GreedyMakeMove(hand, playable_trains, tr, ct)
    ELSE CustomMakeMove(hand, tr, ct)

\* ---------------------------------------------------------- attempt_move
VerdictNotForced(p, could_move, played_train, tr, ct) ==
    IF played_train = NoTrain THEN "set_marked"
    ELSE IF played_train # p /\ ~IsMarked(tr, ct, played_train) THEN "raise: unmarked Train"
    ELSE IF played_train = p THEN "set_unmarked"
    ELSE "pass"

VerdictAnyTrain(p, could_move, played_train, tr, ct) ==
    IF played_train = NoTrain
    THEN IF could_move THEN "raise: could have played" ELSE "set_marked"
    ELSE IF played_train = p THEN "set_unmarked"
    ELSE "pass"

VerdictKeepsMark(p, could_move, played_train, tr, ct) ==
    IF played_train = NoTrain
    THEN IF could_move THEN "raise: could have played" ELSE "set_marked"
    ELSE IF played_train # p /\ ~IsMarked(tr, ct, played_train) THEN "raise: unmarked Train"
    ELSE "pass"

\* The branch Game.attempt_move takes once did_move has answered.
Verdict(p, could_move, played_train, tr, ct) ==
    IF played_train = NoTrain
    THEN IF could_move THEN "raise: could have played" ELSE "set_marked"
    ELSE IF played_train # p /\ ~IsMarked(tr, ct, played_train) THEN "raise: unmarked Train"
    ELSE IF played_train = p THEN "set_unmarked"
    ELSE "pass"

\* Game.attempt_move, given what make_move left behind (o): the Trains after
\* marking, the value returned and the exception raised.
AfterMakeMove(p, could_move, prev_state, o) ==
    LET played_train == DidMove(prev_state, o.trains, o.community_train)
        verdict      == Verdict(p, could_move, played_train, o.trains, o.community_train)
        result(tr, mv, exc) ==
            [hand |-> o.hand, trains |-> tr, community_train |-> o.community_train,
             moved |-> mv, raised |-> exc]
    IN  IF o.raised # "none"
        THEN result(o.trains, FALSE, Raise(o.raised))
        ELSE IF verdict = "raise: could have played"
        THEN result(o.trains, FALSE,
                    InvalidMoveException("could have played a Domino but did not", prev_state))
        ELSE IF verdict = "set_marked"
        THEN LET m == SetMarked(o.trains, p)
             IN  result(m.trains, played_train # NoTrain, Raise(m.raised))
        ELSE IF verdict = "raise: unmarked Train"
        THEN result(o.trains, FALSE,
                    InvalidMoveException("cannot play onto unmarked Train", prev_state))
        ELSE IF verdict = "set_unmarked"
        THEN LET m == SetUnmarked(o.trains, p)
             IN  result(m.trains, played_train # NoTrain, Raise(m.raised))
        ELSE result(o.trains, played_train # NoTrain, NoException)

AttemptMove(p) ==
    LET playable_trains == GetPlayableTrains(p, trains, community_train)
        could_move      == CanMove(p, hands[p], trains, community_train)
        prev_state      == ToHashable(trains, community_train)
    IN  {AfterMakeMove(p, could_move, prev_state, o) :
            o \in MakeMove(p, hands[p], playable_trains, trains, community_train)}

\* ------------------------------------------------------------ setup_round
KSubsets(S, k) == {h \in SUBSET S : Cardinality(h) = k}

RECURSIVE DealsFromWholePool(_, _)
DealsFromWholePool(p, pool) ==
    IF p > NumPlayers THEN {<<>>}
    ELSE UNION {{<<h>> \o rest : rest \in DealsFromWholePool(p + 1, pool)} :
                    h \in KSubsets(pool, HAND_SIZE)}

\* Every way the draw_random calls of setup_round can deal the hands.
RECURSIVE Deals(_, _)
Deals(p, pool) ==
    IF p > NumPlayers THEN {<<>>}
    ELSE UNION {{<<h>> \o rest : rest \in Deals(p + 1, pool \ h)} :
                    h \in KSubsets(pool, HAND_SIZE)}

SetupRound ==
    /\ pc = "setup"
    /\ \E deal \in Deals(1, Discard(GenerateDominoes, ENGINE)), first \in Players :
        /\ hands' = [p \in Players |-> hands[p] \cup deal[p]]
        /\ boneyard' = Discard(GenerateDominoes, ENGINE) \ UNION {deal[p] : p \in Players}
        /\ turn_order' = first
    /\ trains' = [p \in Players |-> Train]
    /\ community_train' = CommunityTrain
    /\ played' = 0
    /\ pc' = "first"
    /\ UNCHANGED <<call, game, strategy, round_counter, rankings, current_player, moved,
                   was_marked, raised>>

\* -------------------------------------------------------- play_first_turn
\* One pass of the loop of play_first_turn, for the Player p.
FirstTurn(p) ==
    LET drew(o) ==
            IF boneyard = {}
            THEN {[hand |-> o.hand, trains |-> o.trains, boneyard |-> boneyard,
                   community_train |-> o.community_train, raised |-> "KeyError"]}
            ELSE {IF Matches(drawn, ENGINE) \/ MatchesFlipped(drawn, ENGINE)
                  THEN LET r == AddToEnd(o.trains[p], ENGINE, drawn)
                       IN  [hand            |-> o.hand,
                            boneyard        |-> boneyard \ {drawn},
                            community_train |-> o.community_train,
                            trains          |-> [o.trains EXCEPT ![p] = r.tree],
                            raised          |-> r.raised]
                  ELSE LET m == SetMarked(o.trains, p)
                       IN  [hand            |-> o.hand,
                            boneyard        |-> boneyard \ {drawn},
                            community_train |-> o.community_train,
                            trains          |-> m.trains,
                            raised          |-> m.raised]
                  : drawn \in boneyard}
    IN  UNION {IF o.raised # "none"
               THEN {[hand |-> o.hand, trains |-> o.trains, boneyard |-> boneyard,
                      community_train |-> o.community_train, raised |-> o.raised]}
               ELSE drew(o)
               : o \in MakeMove(p, hands[p], <<p>>, trains, community_train)}

PlayFirstTurn ==
    /\ pc = "first"
    /\ played < NumPlayers
    /\ \E r \in FirstTurn(turn_order) :
        /\ hands' = [hands EXCEPT ![turn_order] = r.hand]
        /\ trains' = r.trains
        /\ community_train' = r.community_train
        /\ boneyard' = r.boneyard
        /\ raised' = Raise(r.raised)
        /\ pc' = IF r.raised # "none" THEN "raised"
                 ELSE IF played + 1 < NumPlayers THEN "first" ELSE "turn"
    /\ played' = played + 1
    /\ current_player' = turn_order
    /\ turn_order' = NextIdx(turn_order)
    /\ UNCHANGED <<call, game, strategy, round_counter, rankings, moved, was_marked>>

\* ------------------------------------------------------------------- play
\* After the last attempt_move of a turn: the round is over if the hand is empty.
AfterTurn(hand) == IF Cardinality(hand) = 0 THEN "score" ELSE "turn"

AfterAttemptAlwaysDraws(mv, by, hand) ==
    IF Cardinality(by) > 0 THEN "draw" ELSE AfterTurn(hand)

\* After the first attempt_move of a turn: if not moved and len(self.boneyard) > 0,
\* the Player draws and attempt_move is called again.
AfterAttempt(mv, by, hand) ==
    IF ~mv /\ Cardinality(by) > 0 THEN "draw" ELSE AfterTurn(hand)

\* current_player = next(self.turn_order); moved = self.attempt_move(current_player)
TakeTurn ==
    /\ pc = "turn"
    /\ \E r \in AttemptMove(turn_order) :
        /\ hands' = [hands EXCEPT ![turn_order] = r.hand]
        /\ trains' = r.trains
        /\ community_train' = r.community_train
        /\ moved' = r.moved
        /\ raised' = r.raised
        /\ pc' = IF r.raised.kind # "none" THEN "raised"
                 ELSE AfterAttempt(r.moved, boneyard, r.hand)
        /\ was_marked' = (r.raised.kind = "none"
                          /\ AfterAttempt(r.moved, boneyard, r.hand) = "draw"
                          /\ trains[turn_order].marked)
    /\ current_player' = turn_order
    /\ turn_order' = NextIdx(turn_order)
    /\ UNCHANGED <<call, game, strategy, round_counter, rankings, boneyard, played>>

\* current_player.add(self.boneyard.draw_random())
DrawFromBoneyard ==
    /\ pc = "draw"
    /\ \E drawn \in boneyard :
        /\ boneyard' = boneyard \ {drawn}
        /\ hands' = [hands EXCEPT ![current_player] = @ \cup {drawn}]
    /\ pc' = "retry"
    /\ UNCHANGED <<call, game, strategy, round_counter, rankings, turn_order, trains,
                   community_train, played, current_player, moved, was_marked, raised>>

\* moved = self.attempt_move(current_player), after the draw
RetryMove ==
    /\ pc = "retry"
    /\ \E r \in AttemptMove(current_player) :
        /\ hands' = [hands EXCEPT ![current_player] = r.hand]
        /\ trains' = r.trains
        /\ community_train' = r.community_train
        /\ moved' = r.moved
        /\ raised' = r.raised
        /\ pc' = IF r.raised.kind # "none" THEN "raised" ELSE AfterTurn(r.hand)
    /\ was_marked' = FALSE
    /\ UNCHANGED <<call, game, strategy, round_counter, rankings, boneyard, turn_order, played,
                   current_player>>

\* self.score_round(); self.round_counter += 1; then the test of the outer loop
ScoreRound ==
    /\ pc = "score"
    /\ rankings' = [p \in Players |-> rankings[p] + SumValues(hands[p])]
    /\ hands' = [p \in Players |-> {}]
    /\ round_counter' = round_counter + 1
    /\ pc' = IF round_counter + 1 < MAX_ROUNDS THEN "setup" ELSE "done"
    /\ UNCHANGED <<call, game, strategy, boneyard, turn_order, trains, community_train, played,
                   current_player, moved, was_marked, raised>>

\* Game.__init__, and the Players it is given: all greedy, or the first one with
\* a make_move of its own.
Init ==
    /\ pc = "setup"
    /\ strategy \in {[p \in Players |-> "greedy"],
                     [p \in Players |-> IF p = 1 THEN "custom" ELSE "greedy"]}
    /\ round_counter = 0
    /\ rankings = [p \in Players |-> 0]
    /\ hands = [p \in Players |-> {}]
    /\ boneyard = {}
    /\ turn_order = 1
    /\ trains = [p \in Players |-> Train]
    /\ community_train = CommunityTrain
    /\ played = 0
    /\ current_player = 0
    /\ moved = FALSE
    /\ was_marked = FALSE
    /\ raised = NoException
    /\ call = NoCall
    /\ game = NoGame

Next ==
    \/ SetupRound
    \/ PlayFirstTurn
    \/ TakeTurn
    \/ DrawFromBoneyard
    \/ RetryMove
    \/ ScoreRound

Spec == Init /\ [][Next]_vars

\* A Game whose Players all have the make_move of game.py.
GreedyInit == Init /\ strategy = [p \in Players |-> "greedy"]

\* play has neither returned nor raised.
Running == pc \notin {"done", "raised"}

\* play is a single thread that runs until it returns or raises: while it is
\* Running its next step is taken. Next is enabled exactly where Running holds
\* and every step of Next changes <<pc, turn_order>>, so the fairness below is
\* WF_vars(Next) with its enabling condition written as the test of pc.
PlaySteps ==
    /\ Running
    /\ pc' \in {"setup", "first", "turn", "draw", "retry", "score", "done", "raised"}
    /\ turn_order' \in Players

GreedySpec == GreedyInit /\ [][Next]_vars /\ WF_<<pc, turn_order>>(PlaySteps)

\* ------------------------------------------------------- the value of play
\* sorted(self.rankings.items(), key=score): stable, the Players in the order
\* of Game.players where the scores are equal.
RECURSIVE SortedByScore(_)
SortedByScore(s) ==
    IF s = <<>> THEN <<>>
    ELSE LET x    == s[Len(s)]
             rest == SortedByScore(SubSeq(s, 1, Len(s) - 1))
             keep == {i \in 1..Len(rest) : x[2] < rest[i][2]}
             k    == IF keep = {} THEN Len(rest) + 1
                     ELSE CHOOSE i \in keep : \A j \in keep : i <= j
         IN  SubSeq(rest, 1, k - 1) \o <<x>> \o SubSeq(rest, k, Len(rest))

PlayReturnUnsorted(scores) == [p \in 1..NumPlayers |-> <<p, scores[p]>>]

\* What Game.play returns: the (Player, score) tuples in ascending score order.
PlayReturn(scores) == SortedByScore([p \in 1..NumPlayers |-> <<p, scores[p]>>])

\* ------------------------------------------------- add_to_end called directly
\* The Trains of a Game that has been set up, with add_to_end called on the
\* first Player's Train by any caller: any Domino object as the end, any Domino
\* of the set that is not the engine and is not yet on the Train as the Domino,
\* each in either orientation.
MaxNodes == 4

Oriented(dominoes) == dominoes \cup {Flip(d) : d \in dominoes}

OnTrain(t, d) == \E n \in 1..Len(t.nodes) : DominoEq(t.nodes[n].domino, d)

CallAddToEnd ==
    /\ pc = "api"
    /\ \E end \in Oriented(GenerateDominoes),
          domino \in Oriented(Discard(GenerateDominoes, ENGINE)) :
        LET r == AddToEnd(trains[1], end, domino)
        IN  /\ ~OnTrain(trains[1], domino)
            /\ Len(r.tree.nodes) <= MaxNodes
            /\ trains' = [trains EXCEPT ![1] = r.tree]
            /\ call' = [end |-> end, domino |-> domino, raised |-> r.raised,
                        placed |-> r.domino]
    /\ UNCHANGED <<pc, strategy, round_counter, rankings, hands, boneyard, turn_order,
                   community_train, played, current_player, moved, was_marked, raised,
                   game>>

TreeInit ==
    /\ pc = "api"
    /\ strategy = [p \in Players |-> "greedy"]
    /\ round_counter = 0
    /\ rankings = [p \in Players |-> 0]
    /\ hands = [p \in Players |-> {}]
    /\ boneyard = {}
    /\ turn_order = 1
    /\ trains = [p \in Players |-> Train]
    /\ community_train = CommunityTrain
    /\ played = 0
    /\ current_player = 0
    /\ moved = FALSE
    /\ was_marked = FALSE
    /\ raised = NoException
    /\ call = NoCall
    /\ game = NoGame

TreeNext == CallAddToEnd

TreeSpec == TreeInit /\ [][TreeNext]_vars

\* -------------------------------------------- DominoSet methods called directly
\* The first Player's hand as a DominoSet of up to MaxSetSize Domino objects,
\* no two of them equal, with all_matching, draw_random and draw called on it by
\* any caller.
MaxSetSize == 3

DominoSets ==
    {S \in SUBSET Oriented(GenerateDominoes) :
        /\ Cardinality(S) <= MaxSetSize
        /\ \A a, b \in S : DominoEq(a, b) => a = b}

SetCall(op, arg, r) ==
    [op |-> op, arg |-> arg, before |-> hands[1], returned |-> r.returned,
     raised |-> r.raised]

SetFrame ==
    UNCHANGED <<pc, strategy, round_counter, rankings, boneyard, turn_order, trains,
                community_train, played, current_player, moved, was_marked, raised,
                game>>

CallAllMatching ==
    /\ pc = "set"
    /\ \E to_match \in Oriented(GenerateDominoes) :
        /\ hands' = [hands EXCEPT ![1] = AllMatchingSet(hands[1], to_match)]
        /\ call' = SetCall("all_matching", to_match,
                           [returned |-> AllMatching(hands[1], to_match),
                            raised |-> "none"])
    /\ SetFrame

CallDrawRandom ==
    /\ pc = "set"
    /\ \E r \in DrawRandom(hands[1]) :
        /\ hands' = [hands EXCEPT ![1] = r.dominoes]
        /\ call' = SetCall("draw_random", <<0 - 1, 0 - 1>>, r)
    /\ SetFrame

CallDraw ==
    /\ pc = "set"
    /\ \E d \in Oriented(GenerateDominoes) :
        LET r == Draw(hands[1], d)
        IN  /\ hands' = [hands EXCEPT ![1] = r.dominoes]
            /\ call' = SetCall("draw", d, r)
    /\ SetFrame

SetInit ==
    /\ pc = "set"
    /\ strategy = [p \in Players |-> "greedy"]
    /\ round_counter = 0
    /\ rankings = [p \in Players |-> 0]
    /\ \E S \in DominoSets : hands = [p \in Players |-> IF p = 1 THEN S ELSE {}]
    /\ boneyard = {}
    /\ turn_order = 1
    /\ trains = [p \in Players |-> Train]
    /\ community_train = CommunityTrain
    /\ played = 0
    /\ current_player = 0
    /\ moved = FALSE
    /\ was_marked = FALSE
    /\ raised = NoException
    /\ call = NoCall
    /\ game = NoGame

SetNext ==
    \/ CallAllMatching
    \/ CallDrawRandom
    \/ CallDraw

SetSpec == SetInit /\ [][SetNext]_vars

\* ------------------------------------------------ Game(player_names) called
\* constants.py get_domino_parameters, with the strict comparisons a slip
\* would give.
GetDominoParametersStrict(player_count) ==
    IF player_count < 2 THEN [raised |-> "fewer than 2 players"]
    ELSE IF player_count < 3 THEN [raised |-> "none", SIDE_MAX |-> 9, HAND_SIZE |-> 8]
    ELSE IF player_count < 6 THEN [raised |-> "none", SIDE_MAX |-> 12, HAND_SIZE |-> 12]
    ELSE IF player_count < 8 THEN [raised |-> "none", SIDE_MAX |-> 12, HAND_SIZE |-> 10]
    ELSE IF player_count < 12 THEN [raised |-> "none", SIDE_MAX |-> 15, HAND_SIZE |-> 11]
    ELSE IF player_count < 14 THEN [raised |-> "none", SIDE_MAX |-> 18, HAND_SIZE |-> 11]
    ELSE [raised |-> "greater than 14 players"]

\* constants.py get_domino_parameters
GetDominoParameters(player_count) ==
    IF player_count < 2 THEN [raised |-> "fewer than 2 players"]
    ELSE IF player_count <= 3 THEN [raised |-> "none", SIDE_MAX |-> 9, HAND_SIZE |-> 8]
    ELSE IF player_count <= 6 THEN [raised |-> "none", SIDE_MAX |-> 12, HAND_SIZE |-> 12]
    ELSE IF player_count <= 8 THEN [raised |-> "none", SIDE_MAX |-> 12, HAND_SIZE |-> 10]
    ELSE IF player_count <= 12 THEN [raised |-> "none", SIDE_MAX |-> 15, HAND_SIZE |-> 11]
    ELSE IF player_count <= 14 THEN [raised |-> "none", SIDE_MAX |-> 18, HAND_SIZE |-> 11]
    ELSE [raised |-> "greater than 14 players"]

\* Game.__init__ on a list of names: the exception it raises, or the Game made
\* (its Players, SIDE_MAX, HAND_SIZE, round_counter; boneyard is the length of
\* self.boneyard once setup_round has made it).
NewGame(player_names) ==
    LET name_set == {player_names[i] : i \in 1..Len(player_names)}
        failed(message) == [names |-> player_names, made |-> FALSE, raised |-> message]
    IN  IF Len(player_names) # Cardinality(name_set)
        THEN failed("Non-unique list of names")
        ELSE LET parameters == GetDominoParameters(Cardinality(name_set))
             IN  IF parameters.raised # "none" THEN failed(parameters.raised)
                 ELSE [names |-> player_names, made |-> TRUE, raised |-> "none",
                       players |-> Len(player_names),
                       SIDE_MAX |-> parameters.SIDE_MAX,
                       HAND_SIZE |-> parameters.HAND_SIZE,
                       round_counter |-> 0, boneyard |-> 0]

\* The lists of names Game is called with: up to MaxNames names, all different
\* or the last one a repetition of an earlier one.
MaxNames == 16

NameLists ==
    {[i \in 1..n |-> i] : n \in 0..MaxNames}
    \cup UNION {{[i \in 1..n |-> IF i = n THEN k ELSE i] : k \in 1..(n - 1)} : n \in 2..MaxNames}

SizesFrame ==
    UNCHANGED <<strategy, round_counter, rankings, hands, boneyard, turn_order, trains,
                community_train, current_player, moved, was_marked, call>>

\* Game(player_names)
Construct ==
    /\ pc = "new"
    /\ \E player_names \in NameLists :
        /\ game' = NewGame(player_names)
        /\ raised' = Raise(game'.raised)
        /\ pc' = IF game'.made THEN "made" ELSE "raised"
    /\ UNCHANGED played
    /\ SizesFrame

\* setup_round of the Game made, as far as the length of the boneyard goes:
\* generate_dominoes, draw(ENGINE), HAND_SIZE draw_random calls for each Player.
SetupRoundSizes ==
    /\ pc = "made"
    /\ LET generated == GenerateDominoesOf(game.SIDE_MAX)
           pool      == Discard(generated, <<game.SIDE_MAX, game.SIDE_MAX>>)
           dealt     == game.players * game.HAND_SIZE
       IN  IF Cardinality(pool) < dealt
           THEN /\ game' = [game EXCEPT !.boneyard = 0]
                /\ raised' = Raise("KeyError")
                /\ pc' = "raised"
           ELSE /\ game' = [game EXCEPT !.boneyard = Cardinality(pool) - dealt]
                /\ raised' = raised
                /\ pc' = "first turns"
    /\ played' = 0
    /\ SizesFrame

\* One pass of the loop of play_first_turn, as far as the length of the boneyard
\* goes: make_move, then draw_random (KeyError on an empty boneyard), then
\* add_to_end, which raises or not, or set_marked.
FirstTurnSizes ==
    /\ pc = "first turns"
    /\ played < game.players
    /\ played' = played + 1
    /\ IF game.boneyard = 0
       THEN /\ game' = game
            /\ raised' = Raise("KeyError")
            /\ pc' = "raised"
       ELSE /\ game' = [game EXCEPT !.boneyard = @ - 1]
            /\ \/ /\ raised' = Raise("not a valid leaf")
                  /\ pc' = "raised"
               \/ /\ raised' = raised
                  /\ pc' = IF played + 1 < game.players THEN "first turns" ELSE "turns"
    /\ SizesFrame

SizesInit ==
    /\ pc = "new"
    /\ strategy = [p \in Players |-> "greedy"]
    /\ round_counter = 0
    /\ rankings = [p \in Players |-> 0]
    /\ hands = [p \in Players |-> {}]
    /\ boneyard = {}
    /\ turn_order = 1
    /\ trains = [p \in Players |-> Train]
    /\ community_train = CommunityTrain
    /\ played = 0
    /\ current_player = 0
    /\ moved = FALSE
    /\ was_marked = FALSE
    /\ raised = NoException
    /\ call = NoCall
    /\ game = NoGame

SizesNext ==
    \/ Construct
    \/ SetupRoundSizes
    \/ FirstTurnSizes

SizesSpec == SizesInit /\ [][SizesNext]_vars

\* ================================================================== claims
\* The Player an attempt_move or first-turn step is for.
Actor == IF pc = "retry" THEN current_player ELSE turn_order

\* The step is a call of attempt_move.
Attempting == pc \in {"turn", "retry"}

\* make_move returned (it did not itself raise).
MakeMoveReturned == raised'.kind \notin {"Exception", "KeyError"}

EndSet(tr, ct, id) == PlayableEnds(TrainOf(tr, ct, id), {})

EndSetChanged(id) ==
    EndSet(trains', community_train', id) # EndSet(trains, community_train, id)

\* The step placed one Domino on the Train with this id.
Placed(id) ==
    Len(TrainOf(trains', community_train', id).nodes) =
        Len(TrainOf(trains, community_train, id).nodes) + 1

NoPlacement ==
    \A id \in TrainIds : TrainOf(trains', community_train', id).nodes =
                         TrainOf(trains, community_train, id).nodes

\* C1: when the Player could move at the start of attempt_move and make_move
\* returns with every Train's end-set unchanged, attempt_move raises
\* InvalidMoveException carrying the snapshot taken before make_move, and the
\* marked flag of no Train changes.
C1_ForcedMove ==
    [][(/\ Attempting
        /\ CanMove(Actor, hands[Actor], trains, community_train)
        /\ MakeMoveReturned
        /\ \A id \in TrainIds : ~EndSetChanged(id))
       => /\ raised'.kind = "InvalidMoveException"
          /\ raised'.prev_state = ToHashable(trains, community_train)
          /\ \A q \in Players : trains'[q].marked = trains[q].marked]_vars

\* A Player who could move declined, and play ended with the InvalidMoveException.
C1_Witness ==
    /\ pc = "raised"
    /\ raised.kind = "InvalidMoveException"
    /\ raised.prev_state = ToHashable(trains, community_train)
    /\ CanMove(current_player, hands[current_player], trains, community_train)

\* C2: a make_move that changes the end-set of a Train that is neither the
\* Player's own nor marked makes attempt_move raise InvalidMoveException;
\* attempt_move returns with a play only when the one Train played onto is the
\* community Train, the Player's own Train or a marked Train.
C2_OnlyLegalTrains ==
    [][(Attempting /\ MakeMoveReturned)
       => /\ (\E id \in Players : id # Actor /\ ~trains[id].marked /\ EndSetChanged(id))
                => raised'.kind = "InvalidMoveException"
          /\ (raised'.kind = "none" /\ moved')
                => \E id \in TrainIds :
                      /\ Placed(id)
                      /\ id = COMMUNITY_TRAIN \/ id = Actor \/ trains[id].marked
                      /\ \A j \in TrainIds \ {id} : ~EndSetChanged(j)]_vars

\* play ended with an InvalidMoveException after a Domino went onto the unmarked
\* Train of another Player.
C2_Witness ==
    /\ pc = "raised"
    /\ raised.kind = "InvalidMoveException"
    /\ \E id \in Players :
          /\ id # current_player
          /\ ~trains[id].marked
          /\ ~EndsEq(raised.prev_state[NameRank(id)][2],
                     HashTrain(trains, community_train, id)[2])

\* C3: on a turn after the first, a Player with no move draws exactly one Domino
\* into the hand when the boneyard is not empty and attempt_move is called again;
\* with the boneyard empty the turn ends with no draw and no play and the
\* Player's Train marked; a Player who can move at the start of the turn draws
\* nothing; no turn takes more than one Domino from the boneyard.
C3_ForcedDraw ==
    [][/\ pc = "turn" =>
            /\ boneyard' = boneyard
            /\ pc' = "draw" =>
                  /\ ~CanMove(turn_order, hands[turn_order], trains, community_train)
                  /\ boneyard # {}
            /\ (/\ ~CanMove(turn_order, hands[turn_order], trains, community_train)
                /\ raised'.kind = "none")
                  => /\ hands' = hands
                     /\ NoPlacement
                     /\ trains'[turn_order].marked
                     /\ pc' = IF boneyard # {} THEN "draw" ELSE "turn"
       /\ pc = "draw" =>
            /\ pc' = "retry"
            /\ NoPlacement
            /\ \E d \in boneyard :
                  /\ boneyard' = boneyard \ {d}
                  /\ hands' = [hands EXCEPT ![current_player] = @ \cup {d}]
       /\ pc = "retry" =>
            /\ boneyard' = boneyard
            /\ pc' # "draw"]_vars

\* A turn has ended with nothing played and nothing left to draw.
C3_Witness ==
    /\ pc = "turn"
    /\ played = NumPlayers
    /\ current_player \in Players
    /\ ~moved
    /\ boneyard = {}
    /\ trains[current_player].marked

\* C4: on the first turn a Domino is drawn from the boneyard only if the Player
\* has no move from the hand onto their own Train; a Player who plays from the
\* hand leaves the boneyard as it was and the turn ends without an exception.
C4_FirstTurnDrawsOnlyIfStuck ==
    [][pc = "first" =>
          /\ boneyard' # boneyard
                => PlayableEnds(trains[turn_order], hands[turn_order]) = {}
          /\ (/\ Cardinality(hands'[turn_order]) < Cardinality(hands[turn_order])
              /\ Len(trains'[turn_order].nodes) > Len(trains[turn_order].nodes))
                => boneyard' = boneyard /\ raised'.kind = "none"]_vars

\* C5: after a Player's first turn their Train is marked iff no Domino was put
\* on it during that turn.
C5_FirstTurnMarkedIffNothingPlaced ==
    [][(pc = "first" /\ raised'.kind = "none")
       => (trains'[turn_order].marked
             <=> Len(trains'[turn_order].nodes) = Len(trains[turn_order].nodes))]_vars

\* C6: a turn (after the first) in which the Player puts a Domino on some Train,
\* also after the forced draw, does not turn the Player's own Train from
\* unmarked to marked.
C6_PlayingNeverMarks ==
    [][/\ (pc = "turn" /\ ~trains[turn_order].marked /\ raised'.kind = "none"
           /\ \E id \in TrainIds : Placed(id))
            => ~trains'[turn_order].marked
       /\ (pc = "retry" /\ ~was_marked /\ raised'.kind = "none"
           /\ \E id \in TrainIds : Placed(id))
            => ~trains'[current_player].marked]_vars

\* C7: an attempt_move in which the Player puts a Domino on their own Train
\* leaves that Train unmarked; one in which the Domino goes onto another Train
\* leaves the marked flag of every Train as it was.
C7_MarkAfterPlay ==
    [][Attempting
       => /\ Placed(Actor) => ~trains'[Actor].marked
          /\ (\E id \in TrainIds \ {Actor} : Placed(id))
                => \A q \in Players : trains'[q].marked = trains[q].marked]_vars

\* The last attempt_move put a Domino on the Player's own Train: it returned
\* True and every other Train is still empty.
C7_Witness ==
    /\ pc = "turn"
    /\ moved
    /\ ~IsEmpty(trains[current_player])
    /\ IsEmpty(community_train)
    /\ \A q \in Players \ {current_player} : IsEmpty(trains[q])
    /\ ~trains[current_player].marked

\* C8: the community Train is marked in every reachable state, set_marked and
\* set_unmarked raise on it, and neither is ever called on it.
C8_CommunityAlwaysMarked ==
    /\ community_train.marked
    /\ IsMarked(trains, community_train, COMMUNITY_TRAIN)
    /\ SetMarked(trains, COMMUNITY_TRAIN).raised # "none"
    /\ SetUnmarked(trains, COMMUNITY_TRAIN).raised # "none"
    /\ raised.message \notin {"Cannot mark the community Train.",
                              "Cannot un-mark the community Train."}

\* Turns have been played onto the community Train while one Player's Train is
\* marked and another's is not.
C8_Witness ==
    /\ pc = "turn"
    /\ ~IsEmpty(community_train)
    /\ \E p \in Players : trains[p].marked
    /\ \E p \in Players : ~trains[p].marked /\ ~IsEmpty(trains[p])

C10_DidMoveDetectsPlay ==
    [][(pc \in {"first", "turn", "retry"})
       => /\ \A id \in TrainIds :
                (/\ Placed(id)
                 /\ \A j \in TrainIds \ {id} :
                       TrainOf(trains', community_train', j).nodes =
                       TrainOf(trains, community_train, j).nodes)
                => (/\ EndSetChanged(id)
                    /\ DidMove(ToHashable(trains, community_train),
                               trains', community_train') = id)
          /\ (NoPlacement
                => DidMove(ToHashable(trains, community_train),
                           trains', community_train') = NoTrain)]_vars

\* attempt_move returned True and some Train holds a Domino attached to another.
C10_Witness ==
    /\ pc = "turn"
    /\ moved
    /\ \E id \in TrainIds : Len(TrainOf(trains, community_train, id).nodes) >= 2

\* The points of a hand: the pips of its Dominoes, the double blank counting 50.
RECURSIVE HandPoints(_)
HandPoints(hand) ==
    IF hand = {} THEN 0
    ELSE LET d == CHOOSE x \in hand : TRUE
         IN  (IF d = <<0, 0>> THEN 50 ELSE d[1] + d[2]) + HandPoints(hand \ {d})

\* C11: the round ends right after the turn in which the acting Player's hand
\* becomes empty, and only then; no turn is taken between that turn and the
\* scoring; the scoring adds to every Player's score the points of the Dominoes
\* left in the hand (a held (0,0) counting 50), adds 0 for the Player who went
\* out, and leaves every hand empty.
C11_RoundEndsWhenHandEmpty ==
    [][/\ (Attempting /\ raised'.kind = "none")
            => (pc' = "score" <=> hands'[Actor] = {})
       /\ pc' = "score" => Attempting
       /\ pc = "score"
            => /\ hands[current_player] = {}
               /\ \A p \in Players : rankings'[p] = rankings[p] + HandPoints(hands[p])
               /\ rankings'[current_player] = rankings[current_player]
               /\ \A p \in Players : hands'[p] = {}
               /\ trains' = trains /\ community_train' = community_train
               /\ boneyard' = boneyard
               /\ pc' \in {"setup", "done"}]_vars

\* A round has been scored: the Player who went out has no points and another
\* Player was left holding the double blank.
C11_Witness ==
    /\ pc = "done"
    /\ rankings[current_player] = 0
    /\ \E p \in Players : rankings[p] >= 50
    /\ \A p \in Players : hands[p] = {}

Holders(d) ==
    {<<"boneyard", 0, x>> : x \in {y \in boneyard : DominoEq(y, d)}}
    \cup UNION {{<<"hand", p, x>> : x \in {y \in hands[p] : DominoEq(y, d)}} : p \in Players}
    \cup UNION {{<<"train", id, n>> :
                    n \in {m \in 1..Len(TrainOf(trains, community_train, id).nodes) :
                             DominoEq(TrainOf(trains, community_train, id).nodes[m].domino, d)}}
                : id \in TrainIds}

\* C13: every Domino of the set is in at most one place among the boneyard, the
\* hands and the nodes of the Trains, and the engine is in none of them.
C13_ExclusiveOwnership ==
    /\ \A d \in GenerateDominoes : Cardinality(Holders(d)) <= 1
    /\ Holders(ENGINE) = {}

\* In the middle of a round: Dominoes in the boneyard, in every hand, and on
\* two Trains.
C13_Witness ==
    /\ pc = "turn"
    /\ boneyard # {}
    /\ \A p \in Players : hands[p] # {}
    /\ Cardinality({id \in TrainIds : ~IsEmpty(TrainOf(trains, community_train, id))}) >= 2

\* ---------------------------------------------- claims about the Train's tree
\* The Train add_to_end is called on, before the call and after it.
Chain == trains[1]

ChainAfter == trains'[1]

\* A step that is a call of add_to_end.
Called == pc = "api" /\ call' # NoCall

\* The most children a node holding d may have.
Cap(d) == IF d[1] = d[2] THEN 2 ELSE 1

\* The nodes of t that hold a Domino equal to d.
NodesOf(t, d) == {n \in 1..Len(t.nodes) : DominoEq(t.nodes[n].domino, d)}

\* The nodes of t that are below their cap.
OpenNodes(t) == {n \in 1..Len(t.nodes) : Len(t.nodes[n].children) < Cap(t.nodes[n].domino)}

Failed == call'.raised # "none"

\* C14: in every tree a node holding a double has at most 2 children and a node
\* holding a non-double at most 1; a call of add_to_end whose end is the Domino
\* of a node already at its cap fails and leaves the tree as it was.
C14_ChildCaps ==
    /\ [](\A n \in 1..Len(Chain.nodes) :
              Len(Chain.nodes[n].children) <= Cap(Chain.nodes[n].domino))
    /\ [][(Called /\ \E n \in NodesOf(Chain, call'.end) : n \notin OpenNodes(Chain))
           => (Failed /\ ChainAfter = Chain)]_vars

\* A double has its two children and a call naming it as the end has failed.
C14_Witness ==
    /\ call.raised # "none"
    /\ \E n \in NodesOf(Chain, call.end) :
          /\ IsDouble(Chain.nodes[n].domino)
          /\ Len(Chain.nodes[n].children) = 2

\* C15: after any calls of add_to_end, failed ones included, ends holds exactly
\* the nodes below their cap, each under its own Domino, and for every face f
\* ends_by_bottom[f] is exactly the set of those nodes whose Domino has bottom f,
\* no key having the empty set.
C15_LeafIndexConsistent ==
    /\ {Chain.ends[i].node : i \in 1..Len(Chain.ends)} = OpenNodes(Chain)
    /\ \A i, j \in 1..Len(Chain.ends) : Chain.ends[i].node = Chain.ends[j].node => i = j
    /\ \A i \in 1..Len(Chain.ends) : Chain.ends[i].key = Chain.nodes[Chain.ends[i].node].domino
    /\ \A f \in SIDE_MIN..SIDE_MAX :
          LET with_bottom == {n \in OpenNodes(Chain) : Chain.nodes[n].domino[2] = f}
          IN  IF f \in DOMAIN Chain.ends_by_bottom
              THEN Chain.ends_by_bottom[f] = with_bottom /\ with_bottom # {}
              ELSE with_bottom = {}

C17_MatchesParent ==
    /\ Chain.root # 0 => Chain.nodes[Chain.root].domino[1] = ENGINE[2]
    /\ \A n \in 1..Len(Chain.nodes) :
          \A k \in 1..Len(Chain.nodes[n].children) :
              Chain.nodes[n].children[k][1] = Chain.nodes[n].domino[2]

\* The candidate lists playable_ends is asked about: up to two Domino objects.
Candidates ==
    {{}} \cup {{a, b} : a, b \in Oriented(GenerateDominoes)}

\* C18: on a Train whose tree is empty playable_ends returns exactly the engine
\* when no candidates are given or some candidate has a face equal to the
\* engine's, and nothing otherwise; on no Train does it return None.
C18_PlayableEndsOfEmptyTrain ==
    \A c \in Candidates :
        /\ PlayableEnds(Chain, c) # None
        /\ Chain.root = 0
              => PlayableEnds(Chain, c) =
                    IF c = {} \/ \E d \in c : d[1] = SIDE_MAX \/ d[2] = SIDE_MAX
                    THEN {<<SIDE_MAX, SIDE_MAX>>} ELSE {}

\* The Train is still empty after a call of add_to_end failed on it: the engine
\* is its end for a matching candidate, and it has no end for another one.
C18_Witness ==
    /\ Chain.root = 0
    /\ call.raised # "none"
    /\ PlayableEnds(Chain, {<<SIDE_MAX, SIDE_MIN>>}) = {ENGINE}
    /\ PlayableEnds(Chain, {<<SIDE_MIN, SIDE_MIN>>}) = {}

\* C19: add_to_end(engine, d) on a Train whose tree is empty succeeds iff a face
\* of d is the engine's face; then d is the root with the engine's face on top
\* and is the only end, its other face the bottom.  With the tree empty and an
\* end that is not the engine, or the tree not empty and the engine as the end,
\* add_to_end fails and leaves the tree as it was.
C19_AddToEndOfEmptyTrain ==
    [][Called
       => /\ (Chain.root = 0 /\ DominoEq(call'.end, ENGINE))
                => /\ ~Failed <=> (call'.domino[1] = SIDE_MAX \/ call'.domino[2] = SIDE_MAX)
                   /\ Failed => ChainAfter = Chain
                   /\ ~Failed
                        => /\ ChainAfter.root # 0
                           /\ Len(ChainAfter.nodes) = 1
                           /\ LET root == ChainAfter.nodes[ChainAfter.root].domino
                              IN  /\ DominoEq(root, call'.domino)
                                  /\ root[1] = SIDE_MAX
                                  /\ root[2] = IF call'.domino[1] = SIDE_MAX
                                                THEN call'.domino[2] ELSE call'.domino[1]
                                  /\ PlayableEndsAll(ChainAfter) = <<root>>
                                  /\ \A c \in Candidates :
                                        PlayableEnds(ChainAfter, c) =
                                            IF c = {} \/ root[2] \in Faces(c)
                                            THEN {root} ELSE {}
          /\ (Chain.root = 0 /\ ~DominoEq(call'.end, ENGINE))
                => (Failed /\ ChainAfter = Chain)
          /\ (Chain.root # 0 /\ DominoEq(call'.end, ENGINE))
                => (Failed /\ ChainAfter = Chain)]_vars

\* A Domino given bottom-first has become the root, flipped.
C19_Witness ==
    /\ Len(Chain.nodes) = 1
    /\ call.raised = "none"
    /\ DominoEq(call.end, ENGINE)
    /\ call.placed = Flip(call.domino)
    /\ call.placed[1] = SIDE_MAX /\ call.placed[2] # SIDE_MAX

\* The number of entries of playable_ends([]) that are the Domino d.
EndCount(t, d) ==
    Cardinality({i \in 1..Len(PlayableEndsAll(t)) : DominoEq(PlayableEndsAll(t)[i], d)})

\* C20 (as claimed): when a double is attached to the only end of a Train,
\* playable_ends([]) reports two ends, both the double, and the former end is no
\* longer one; the double is still an end after its first child is attached and
\* is no end after its second.
C20_DoubleForks ==
    [][(Called /\ ~Failed /\ Chain.root # 0)
       => /\ (IsDouble(call'.placed) /\ Len(PlayableEndsAll(Chain)) = 1)
                => /\ Len(PlayableEndsAll(ChainAfter)) = 2
                   /\ EndCount(ChainAfter, call'.placed) = 2
                   /\ EndCount(ChainAfter, call'.end) = 0
          /\ \A n \in NodesOf(Chain, call'.end) :
                IsDouble(Chain.nodes[n].domino)
                    => /\ Len(Chain.nodes[n].children) = 0
                            => EndCount(ChainAfter, call'.end) >= 1
                       /\ Len(Chain.nodes[n].children) = 1
                            => EndCount(ChainAfter, call'.end) = 0]_vars

\* C20 (amended): when a double is attached to the only end of a Train,
\* playable_ends([]) reports one end, the double, and the former end is no longer
\* one; the double is still that one end after its first child is attached and
\* is no end after its second.
C20_DoubleIsOneEnd ==
    [][(Called /\ ~Failed /\ Chain.root # 0)
       => /\ (IsDouble(call'.placed) /\ Len(PlayableEndsAll(Chain)) = 1)
                => /\ PlayableEndsAll(ChainAfter) = <<call'.placed>>
                   /\ EndCount(ChainAfter, call'.end) = 0
          /\ \A n \in NodesOf(Chain, call'.end) :
                IsDouble(Chain.nodes[n].domino)
                    => /\ Len(Chain.nodes[n].children) = 0
                            => EndCount(ChainAfter, call'.end) = 1
                       /\ Len(Chain.nodes[n].children) = 1
                            => EndCount(ChainAfter, call'.end) = 0]_vars

\* A double on the Train has its first child and is still an end, next to the
\* child.
C20_Witness ==
    /\ call # NoCall
    /\ call.raised = "none"
    /\ IsDouble(call.end)
    /\ \E n \in NodesOf(Chain, call.end) : Len(Chain.nodes[n].children) = 1
    /\ EndCount(Chain, call.end) = 1
    /\ Len(PlayableEndsAll(Chain)) = 2

\* C21: on a tree with a root, playable_ends with candidates returns exactly the
\* Dominoes of the open nodes whose bottom is the top or the bottom of a
\* candidate, and with no candidates the Dominoes of all open nodes; on a tree
\* without a root it returns None.
C21_TreePlayableEnds ==
    \A c \in Candidates :
        DominoTreePlayableEnds(Chain, c) =
            IF Chain.root = 0 THEN None
            ELSE {Chain.nodes[n].domino :
                    n \in {m \in OpenNodes(Chain) :
                             c = {} \/ \E d \in c : Chain.nodes[m].domino[2] \in {d[1], d[2]}}}

\* The Dominoes of the generated set, the engine apart.
InPlay == {d \in GenerateDominoes : ~DominoEq(d, ENGINE)}

\* C30: while a round is played the boneyard, the hands and the nodes of the
\* Trains together hold exactly the generated set without the engine: every
\* Domino that left the boneyard is in a hand or on a Train, and every Domino
\* that left a hand is on a Train.
C30_TileConservation ==
    pc \in {"first", "turn", "draw", "retry", "score"}
        => \A d \in InPlay : Cardinality(Holders(d)) = 1

\* ------------------------------------------------ claims about the DominoSet
\* The DominoSet the calls are made on, before the call and after it.
TheSet == hands[1]

TheSetAfter == hands'[1]

SetCalled(op) == pc = "set" /\ call'.op = op

\* Some Domino of S is the Domino d, in one orientation or the other.
Holds(S, d) == \E x \in S : {x[1], x[2]} = {d[1], d[2]}

\* C22: all_matching(target) returns exactly the Dominoes of the set with a
\* face equal to target's bottom, each one with that face on top and as it now
\* is in the set; the set holds the same Dominoes, as many as before; a Domino
\* that is not returned keeps its orientation.
C22_AllMatching ==
    [][SetCalled("all_matching")
       => LET target   == call'.arg
              returned == call'.returned
          IN  /\ \A x \in TheSet :
                    (x[1] = target[2] \/ x[2] = target[2]) <=> Holds(returned, x)
              /\ \A r \in returned :
                    r[1] = target[2] /\ r \in TheSetAfter /\ Holds(TheSet, r)
              /\ \A x \in TheSet : Holds(TheSetAfter, x)
              /\ \A y \in TheSetAfter : Holds(TheSet, y)
              /\ Cardinality(TheSetAfter) = Cardinality(TheSet)
              /\ \A x \in TheSet : ~Holds(returned, x) => x \in TheSetAfter]_vars

\* all_matching returned one Domino it had to flip and one it found top-first,
\* and left a third one alone.
C22_Witness ==
    /\ pc = "set"
    /\ call # NoCall
    /\ call.op = "all_matching"
    /\ \E r \in call.returned : r \notin call.before
    /\ \E r \in call.returned : r \in call.before
    /\ \E x \in call.before : x \in TheSet /\ x \notin call.returned

\* Every Domino object with sides in SIDE_MIN..SIDE_MAX.
Objects == (SIDE_MIN..SIDE_MAX) \X (SIDE_MIN..SIDE_MAX)

\* C24: a Domino equals its flipped copy and has the same hash; two Dominoes
\* are equal iff they have the same unordered pair of sides; flipping twice
\* gives back the orientation; equality with any Domino and the hash are the
\* same before and after a flip.
C24_OrientationInvariance ==
    \A t \in Objects :
        /\ DominoEq(t, Flip(t))
        /\ Hash(t) = Hash(Flip(t))
        /\ Flip(Flip(t)) = t
        /\ \A u \in Objects :
              /\ DominoEq(t, u) <=> (\/ (t[1] = u[1] /\ t[2] = u[2])
                                     \/ (t[1] = u[2] /\ t[2] = u[1]))
              /\ DominoEq(t, u) => Hash(t) = Hash(u)
              /\ DominoEq(Flip(t), u) <=> DominoEq(t, u)
        /\ \A x \in TheSet :
              DominoEq(x, t) => (Contains(TheSet, Flip(t)) /\ Hash(x) = Hash(t))

\* all_matching has flipped a Domino of the set in place: the set still
\* contains the Domino as it was before.
C24_Witness ==
    /\ pc = "set"
    /\ call # NoCall
    /\ call.op = "all_matching"
    /\ \E x \in call.before : x \notin TheSet /\ Flip(x) \in TheSet /\ Contains(TheSet, x)

\* C25 (as claimed): value is the sum of the sides, except that the maximal
\* double scores 50, and no other Domino scores 50 by exception.
C25_MaximalDoubleScores50 ==
    \A d \in TheSet :
        Value(d) = IF d[1] = SIDE_MAX /\ d[2] = SIDE_MAX THEN 50 ELSE d[1] + d[2]

\* C25 (amended): value is the sum of the sides, except that the double blank
\* scores 50; the maximal double scores the sum of its sides.
C25_DoubleBlankScores50 ==
    /\ \A d \in Objects :
          Value(d) = IF d[1] = 0 /\ d[2] = 0 THEN 50 ELSE d[1] + d[2]
    /\ Value(<<SIDE_MAX, SIDE_MAX>>) = 2 * SIDE_MAX
    /\ \A d \in TheSet :
          Value(d) = IF d \in {<<0, 0>>} THEN 50 ELSE d[1] + d[2]

\* A DominoSet holding the double blank, the maximal double and a third Domino.
C25_Witness ==
    /\ pc = "set"
    /\ <<0, 0>> \in TheSet
    /\ <<SIDE_MAX, SIDE_MAX>> \in TheSet
    /\ Cardinality(TheSet) = 3

\* ------------------------------------------------- claims about construction
\* C23: generate_dominoes of a Game with maximum side M yields (M+1)(M+2)/2
\* Dominoes, no two equal, one for every pair i <= j of sides in 0..M; with the
\* engine taken out the pool holds one less and does not contain (M, M).
C23_GeneratedSet ==
    \A M \in IF game.made THEN {SIDE_MAX, game.SIDE_MAX} ELSE {SIDE_MAX} :
        LET generated == GenerateDominoesOf(M)
            pool      == Discard(generated, <<M, M>>)
        IN  /\ Cardinality(generated) = ((M + 1) * (M + 2)) \div 2
            /\ \A a, b \in generated : DominoEq(a, b) => a = b
            /\ \A i, j \in 0..M : i <= j => \E d \in generated : Hash(d) = <<i, j>>
            /\ \A d \in generated : d[1] \in 0..M /\ d[2] \in 0..M
            /\ Cardinality(pool) = ((M + 1) * (M + 2)) \div 2 - 1
            /\ ~Contains(pool, <<M, M>>)
            /\ pool \subseteq generated

\* A Game for 14 Players has been made and set up: a double-18 set.
C23_Witness ==
    /\ pc = "first turns"
    /\ game.made
    /\ game.SIDE_MAX = 18
    /\ game.boneyard = 190 - 1 - 14 * 11

\* C26: Game(names) makes a Game iff the names are all different and there are
\* 2 to 14 of them, with SIDE_MAX and HAND_SIZE from the table of the Player
\* count; otherwise it raises and no Game is made.
C26_Construction ==
    [][pc = "new"
       => LET names    == game'.names
              n        == Len(names)
              distinct == \A i, j \in 1..n : names[i] = names[j] => i = j
          IN  /\ game'.made <=> (distinct /\ n >= 2 /\ n <= 14)
              /\ game'.made
                    => /\ game'.players = n
                       /\ n \in {2, 3} => (game'.SIDE_MAX = 9 /\ game'.HAND_SIZE = 8)
                       /\ n \in {4, 5, 6} => (game'.SIDE_MAX = 12 /\ game'.HAND_SIZE = 12)
                       /\ n \in {7, 8} => (game'.SIDE_MAX = 12 /\ game'.HAND_SIZE = 10)
                       /\ n \in {9, 10, 11, 12} => (game'.SIDE_MAX = 15 /\ game'.HAND_SIZE = 11)
                       /\ n \in {13, 14} => (game'.SIDE_MAX = 18 /\ game'.HAND_SIZE = 11)
                       /\ raised'.kind = "none" /\ pc' = "made"
              /\ ~game'.made => (raised'.kind = "Exception" /\ pc' = "raised")]_vars

\* Game was called with a legal number of names, two of them the same, and
\* raised.
C26_Witness ==
    /\ pc = "raised"
    /\ ~game.made
    /\ Len(game.names) = 14
    /\ raised.message = "Non-unique list of names"

\* C27: play_first_turn never calls draw_random on an empty boneyard: while
\* Players still have their first turn to play the boneyard is not empty, and
\* no KeyError leaves setup_round or play_first_turn.
C27_NeverDrawsFromEmptyPile ==
    /\ (pc = "first turns" /\ played < game.players) => game.boneyard > 0
    /\ raised.kind # "KeyError"

C29_PlayTerminates == <>(pc \in {"done", "raised"})

\* ------------------------------------------------- claims about turn order
\* C31: within a round the turns go round the list of Players: every Player
\* takes one first turn before any later turn (the first turns are counted, the
\* main loop starts when all NumPlayers are taken), the Player of a turn is the
\* one after the Player of the turn before, circularly, a draw and the second
\* attempt belong to the same Player, and a turn changes the hand of its Player
\* only. In a first turn a Player with the make_move of game.py places Dominoes
\* on their own Train only; the community Train and the other Trains keep their
\* Dominoes.
C31_TurnOrder ==
    /\ [](pc \in {"turn", "draw", "retry"} => played = NumPlayers)
    /\ [](pc = "first" => played < NumPlayers)
    /\ [][/\ pc = "first"
               => /\ played' = played + 1
                  /\ current_player' \in Players
                  /\ played > 0 => current_player' - 1 = current_player % NumPlayers
                  /\ strategy[current_player'] = "greedy"
                       => /\ community_train'.nodes = community_train.nodes
                          /\ \A q \in Players \ {current_player'} :
                                trains'[q].nodes = trains[q].nodes
          /\ pc = "turn"
               => /\ current_player' \in Players
                  /\ current_player' - 1 = current_player % NumPlayers
          /\ pc \in {"draw", "retry"} => current_player' = current_player
          /\ pc \in {"first", "turn", "draw", "retry"}
               => \A q \in Players \ {current_player'} : hands'[q] = hands[q]]_vars

\* The last Player of the list has taken the first first turn and started their
\* Train; the first Player of the list is next.
C31_Witness ==
    /\ pc = "first"
    /\ played = 1
    /\ current_player = NumPlayers
    /\ turn_order = 1
    /\ trains[current_player].root # 0

\* ------------------------------------------- claims about the greedy Player
\* The faces a Train shows: the engine's for a Train not begun, else the bottom
\* of the Domino of every node that is an end.
ExposedFaces(t) ==
    IF t.root = 0 THEN {ENGINE[2]}
    ELSE {t.nodes[t.ends[i].node].domino[2] : i \in 1..Len(t.ends)}

\* Some Domino of p's hand has a face that a Train p may play on shows.
HasLegalMove(p) ==
    LET playable_trains == GetPlayableTrains(p, trains, community_train)
    IN  \E k \in 1..Len(playable_trains) :
            \E d \in hands[p] :
                {d[1], d[2]} \cap ExposedFaces(TrainOf(trains, community_train,
                                                      playable_trains[k])) # {}

SameDominoes(S, T) ==
    /\ Cardinality(S) = Cardinality(T)
    /\ \A x \in S : Holds(T, x)

\* The Train with this id has one node more, holding d, and its other nodes
\* hold what they held.
PlacedOn(id, d) ==
    LET before == TrainOf(trains, community_train, id).nodes
        after  == TrainOf(trains', community_train', id).nodes
    IN  /\ Len(after) = Len(before) + 1
        /\ DominoEq(after[Len(after)].domino, d)
        /\ \A n \in 1..Len(before) : after[n].domino = before[n].domino

\* C32: with greedy Players play never raises an InvalidMoveException; can_move
\* is true exactly when a Domino of the hand has a face that an open end of a
\* Train of get_playable_trains shows; in an attempt_move where can_move is
\* true nothing is raised and exactly one Domino leaves the hand and becomes a
\* new node of one Train of that list, no other Train changing; where can_move
\* is false the hand holds the same Dominoes and every Train the same nodes.
C32_GreedyIsLegal ==
    /\ [](raised.kind # "InvalidMoveException")
    /\ [](pc \in {"first", "turn", "draw", "retry"}
            => \A p \in Players :
                  CanMove(p, hands[p], trains, community_train) <=> HasLegalMove(p))
    /\ [][(pc = "turn" \/ pc = "retry")
           => (LET p   == current_player'
                  list == GetPlayableTrains(p, trains, community_train)
              IN  IF CanMove(p, hands[p], trains, community_train)
                  THEN /\ raised'.kind = "none"
                       /\ moved'
                       /\ \E d \in hands[p] :
                            /\ SameDominoes(hands'[p], hands[p] \ {d})
                            /\ \E k \in 1..Len(list) :
                                 /\ PlacedOn(list[k], d)
                                 /\ \A id \in TrainIds \ {list[k]} :
                                       TrainOf(trains', community_train', id).nodes
                                         = TrainOf(trains, community_train, id).nodes
                  ELSE /\ raised'.kind = "none"
                       /\ ~moved'
                       /\ SameDominoes(hands'[p], hands[p])
                       /\ \A id \in TrainIds :
                             TrainOf(trains', community_train', id).nodes
                               = TrainOf(trains, community_train, id).nodes)]_vars

\* A greedy Player has played a Domino on the community Train in a turn, and
\* another has found no move in a turn and had their Train marked.
C32_Witness ==
    /\ strategy = [p \in Players |-> "greedy"]
    /\ pc = "turn"
    /\ moved
    /\ community_train.root # 0
    /\ \E p \in Players : trains[p].marked /\ trains[p].root # 0

\* The Player whose attempt_move is about to be called.
Mover == IF pc = "turn" THEN turn_order ELSE current_player

\* C33: a Player whose own Train is not begun is not offered the community
\* Train by get_playable_trains when attempt_move is called, and no attempt_move
\* of such a Player adds a Domino to the community Train.
C33_CommunityTrainAfterOwnTrain ==
    /\ []((pc \in {"turn", "retry"} /\ trains[Mover].root = 0)
            => LET list == GetPlayableTrains(Mover, trains, community_train)
               IN  \A k \in 1..Len(list) : list[k] # COMMUNITY_TRAIN)
    /\ [][((pc = "turn" \/ pc = "retry") /\ trains[Mover].root = 0)
           => community_train'.nodes = community_train.nodes]_vars

\* ------------------------------------------- claims about calls that fail
\* The Domino of the Train's open end equal to end, as the Train holds it; the
\* engine for a Train not begun.
StoredEnd(t, end) ==
    IF t.root = 0 THEN ENGINE ELSE t.nodes[t.ends[KeyIndex(t.ends, end)].node].domino

IsOpenEnd(t, end) ==
    IF t.root = 0 THEN DominoEq(end, ENGINE) ELSE HasKey(t.ends, end)

\* C34: a call of add_to_end that fails because the end given is not an open
\* end of the Train, or because neither face of the Domino given equals the
\* face the end shows, leaves root, nodes (their Dominoes and children), ends
\* and ends_by_bottom as they were and the Domino given in the orientation it
\* was given in.
C34_FailedCallChangesNothing ==
    [][(/\ Called
        /\ Failed
        /\ \/ ~IsOpenEnd(Chain, call'.end)
           \/ /\ IsOpenEnd(Chain, call'.end)
              /\ StoredEnd(Chain, call'.end)[2] \notin {call'.domino[1], call'.domino[2]})
       => /\ ChainAfter = Chain
          /\ call'.placed = call'.domino]_vars

\* ------------------------------------------------ claims about the snapshot
\* The orders in which the ends of s can be listed.
Orders(s) ==
    {[i \in 1..Len(s) |-> s[f[i]]] : f \in Permutations(1..Len(s))}

\* C35: the snapshot depends on the sets of playable ends only: for every Train
\* the sorted ends hash_train returns are the same whatever the order in which
\* the ends were created (the order playable_ends([]) lists them in), ends of
\* equal value included; to_hashable lists the Players' Trains in the order of
\* the Players' names and the community Train last.
C35_SnapshotIsCanonical ==
    /\ \A id \in TrainIds :
          \A s \in Orders(PlayableEndsAll(TrainOf(trains, community_train, id))) :
              EndsEq(Sorted(s), HashTrain(trains, community_train, id)[2])
    /\ \A k \in 1..NumPlayers :
          /\ NameRank(ToHashable(trains, community_train)[k][1]) = k
          /\ k < NumPlayers
               => NameRank(ToHashable(trains, community_train)[k][1])
                    < NameRank(ToHashable(trains, community_train)[k + 1][1])
    /\ ToHashable(trains, community_train)[NumPlayers + 1][1] = COMMUNITY_TRAIN

====
